---------------------------- MODULE Spec2Model ----------------------------
(***************************************************************************)
(* Model of the two notebooks of davidbowler/ComputationalPhysics:         *)
(*   BVP.ipynb                       - shooting method: manual bisection    *)
(*                                     on the initial velocity v0           *)
(*   Solving second order ODEs.ipynb - Euler propagation of coupled ODEs    *)
(*                                                                         *)
(* Numbers.  Python floats are modelled in fixed point:                     *)
(*   - a velocity is an integer number of grid units; one unit stands for   *)
(*     one ulp of the floats in the bracket, so 0.5*(a+b) is the exact      *)
(*     midpoint when a+b is even and is rounded to the even neighbour       *)
(*     otherwise (IEEE-754 round-half-to-even);                             *)
(*   - a residual and the tolerance are integers in one common unit.        *)
(***************************************************************************)
EXTENDS Integers, Sequences, FiniteSets, TLC

(***************************************************************************)
(* Bounds of the model.                                                    *)
(***************************************************************************)
MaxX == 4          \* initial bracket ends are drawn from 0..MaxX
MaxRes == 2        \* an arbitrary residual takes values in -MaxRes..MaxRes
MaxIter == 3       \* max_iter is drawn from 0..MaxIter
MaxDt == 2         \* dt is drawn from 1..MaxDt
MaxT == 5          \* total_t is drawn from 0..MaxT
MaxY == 1          \* entries of the initial state are drawn from -MaxY..MaxY
BallBits == 20     \* ball drop: the bracket [0,50] is 2^BallBits grid units

VARIABLES
    problem,    \* which residual function the cell runs on: "any" | "ball"
    known,      \* the residual function as far as it has been evaluated
    n_eval,     \* number of calls of projectile_final_height_error so far
    bracket0,   \* the initial bracket, as printed by "Brackets are ..."
    v0_1, f_1,  \* lower bracket and its residual
    v0_2, f_2,  \* upper bracket and its residual
    v0_mid,     \* last midpoint (Unbound before the first iteration)
    f_mid,      \* last midpoint residual (10*tol before the first iteration)
    iter, max_iter, tol,
    pc,         \* position in cell 05115946: "while" | "done"
    raised,     \* exception that ended the cell: "none" | "NameError"
    out,        \* what the two final print statements put out
    \* Solving second order ODEs.ipynb
    dt, total_t, N_steps,
    time,       \* np.linspace(0,total_t,N_steps), each entry a fraction
    deriv,      \* the right-hand side function the loop calls
    y0,         \* initial state: np.array([x0,v0]) or np.array([x2d0,v2d0])
    y,          \* the storage y (cell 44f4ed81) or y2d (cell c37da071)
    i,          \* loop index
    epc,        \* position in the Euler cell: "loop" | "done" | "error"
    eraised     \* exception that ended the cell: "none" | "ValueError"

bvars == <<problem, known, n_eval, bracket0, v0_1, f_1, v0_2, f_2, v0_mid,
           f_mid, iter, max_iter, tol, pc, raised, out>>

evars == <<dt, total_t, N_steps, time, deriv, y0, y, i, epc, eraised>>

vars == <<bvars, evars>>

(***************************************************************************)
(* Arithmetic helpers.                                                     *)
(***************************************************************************)
abs(a) == IF a < 0 THEN -a ELSE a

Sgn(a) == IF a > 0 THEN 1 ELSE IF a < 0 THEN -1 ELSE 0

RECURSIVE Pow2(_)
Pow2(n) == IF n = 0 THEN 1 ELSE 2 * Pow2(n - 1)

\* the test inverted
ProductNegative(a, b) == Sgn(a) * Sgn(b) < 0

\* the test with >= in place of >
ProductNonNegative(a, b) == Sgn(a) * Sgn(b) >= 0

\* the test f_mid*f_1>0; the product of two floats is positive exactly when
\* both have the same strict sign (the product itself is not needed)
ProductPositive(a, b) == Sgn(a) * Sgn(b) > 0

\* the midpoint without its factor 0.5
Midpoint_sum(a, b) == a + b

\* 0.5*(a + b) on the float grid: exact when a+b is even, otherwise the tie
\* between the two neighbours goes to the even one
Midpoint(a, b) ==
    LET s == a + b
        lo == s \div 2
    IN  IF s % 2 = 0 THEN lo
        ELSE IF lo % 2 = 0 THEN lo ELSE lo + 1


(***************************************************************************)
(* BVP.ipynb: the ball drop, cells 75250451, 1a3a4c23, 07188e3e.            *)
(***************************************************************************)
g_centi == 981     \* g = 9.81 m/s^2, in cm/s^2
t0 == 0            \* s
t1 == 10           \* s
z0 == 0            \* m
z1 == 0            \* m, target height
v0_lo == 0         \* first bracket, m/s
v0_hi == 50        \* second bracket, m/s
max_iter_nb == 100 \* max_iter of the notebook
tol_inv == 1000    \* tol = 1e-3 = 1/tol_inv

\* Units of the ball drop: a velocity X stands for X*v0_hi/2^BallBits m/s and
\* a residual F for F/2^(BallBits+1) m.
BallTol == Pow2(BallBits + 1) \div tol_inv

\* z(t1) - z1 for dz/dt = v, dv/dt = -g, y(t0) = [z0, v0].  solve_ivp is
\* taken at its exact value z0 + v0*(t1-t0) - g*(t1-t0)^2/2 (the recorded
\* outputs agree with it to 3e-13).
projectile_final_height_error(X) ==
    LET T == t1 - t0
    IN  2 * (z0 - z1) * Pow2(BallBits)
          + 2 * X * (v0_hi - v0_lo) * T
          - ((g_centi * T * T) \div 100) * Pow2(BallBits)

(***************************************************************************)
(* The residual function.  For problem "any" it is an arbitrary function   *)
(* of the velocity: a value is chosen the first time a point is evaluated  *)
(* and kept in known, so that the function is pure.                        *)
(***************************************************************************)
Vals == (-MaxRes)..MaxRes

Tols == (-1)..(MaxRes - 1)

Unbound == -1      \* v0_mid before the loop body has assigned it

ResidualValues(x) ==
    IF problem = "ball" THEN {projectile_final_height_error(x)}
    ELSE IF x \in DOMAIN known THEN {known[x]}
    ELSE Vals

Remember(x, fx) ==
    IF problem = "ball" \/ x \in DOMAIN known THEN known
    ELSE known @@ (x :> fx)

(***************************************************************************)
(* Cell 05115946: the bisection loop.                                      *)
(***************************************************************************)
\* state after lines 204-218, on an arbitrary residual function and bracket
InitBisect ==
    \E a \in 0..MaxX, b \in 0..MaxX, fa \in Vals, fb \in Vals,
       mi \in 0..MaxIter, tl \in Tols :
        /\ (a = b) => (fa = fb)
        /\ problem = "any"
        /\ known = (a :> fa) @@ (b :> fb)
        /\ v0_1 = a /\ f_1 = fa
        /\ v0_2 = b /\ f_2 = fb
        /\ bracket0 = [v0_1 |-> a, f_1 |-> fa, v0_2 |-> b, f_2 |-> fb]
        /\ n_eval = 2
        /\ max_iter = mi
        /\ iter = 0
        /\ tol = tl
        /\ f_mid = 10 * tl
        /\ v0_mid = Unbound
        /\ pc = "while"
        /\ raised = "none"
        /\ out = << >>

\* state after lines 204-218 as the notebook has them, for any max_iter up
\* to the notebook's
InitBall ==
    \E mi \in 0..max_iter_nb :
        /\ problem = "ball"
        /\ known = << >>
        /\ v0_1 = 0 /\ f_1 = projectile_final_height_error(0)
        /\ v0_2 = Pow2(BallBits)
        /\ f_2 = projectile_final_height_error(Pow2(BallBits))
        /\ bracket0 = [v0_1 |-> v0_1, f_1 |-> f_1, v0_2 |-> v0_2, f_2 |-> f_2]
        /\ n_eval = 2
        /\ max_iter = mi
        /\ iter = 0
        /\ tol = BallTol
        /\ f_mid = 10 * BallTol
        /\ v0_mid = Unbound
        /\ pc = "while"
        /\ raised = "none"
        /\ out = << >>

\* variants of the loop condition: one pass too few, one pass too many, abs
\* left out
LoopCondition_short == abs(f_mid) > tol /\ iter < max_iter - 1

LoopCondition_le == abs(f_mid) > tol /\ iter <= max_iter

LoopCondition_noabs == f_mid > tol /\ iter < max_iter

\* while abs(f_mid)>tol and iter<max_iter
LoopCondition == abs(f_mid) > tol /\ iter < max_iter

\* one pass through the loop body, lines 221-230
Iterate ==
    /\ pc = "while"
    /\ LoopCondition
    /\ LET mid == Midpoint(v0_1, v0_2)
       IN  \E fm \in ResidualValues(mid) :
             /\ v0_mid' = mid
             /\ f_mid' = fm
             /\ known' = Remember(mid, fm)
             /\ n_eval' = n_eval + 1
             /\ IF ProductPositive(fm, f_1)
                  THEN /\ v0_1' = mid
                       /\ f_1' = fm
                       /\ UNCHANGED <<v0_2, f_2>>
                  ELSE /\ v0_2' = mid
                       /\ f_2' = fm
                       /\ UNCHANGED <<v0_1, f_1>>
    /\ iter' = iter + 1
    /\ UNCHANGED <<problem, bracket0, max_iter, tol, pc, raised, out>>
    /\ UNCHANGED evars

\* a variant that prints the lower bracket instead of the midpoint
Finish_bracket ==
    /\ pc = "while"
    /\ ~(abs(f_mid) > tol /\ iter < max_iter)
    /\ pc' = "done"
    /\ IF v0_mid = Unbound
         THEN /\ raised' = "NameError"
              /\ out' = [iter |-> iter]
         ELSE /\ raised' = "none"
              /\ out' = [iter |-> iter, v0_mid |-> v0_1, f_mid |-> f_1]
    /\ UNCHANGED <<problem, known, n_eval, bracket0, v0_1, f_1, v0_2, f_2,
                   v0_mid, f_mid, iter, max_iter, tol>>
    /\ UNCHANGED evars

\* the loop is left and the two print statements run, lines 231-232; the
\* second one reads v0_mid, which no statement before the loop body binds
Finish ==
    /\ pc = "while"
    /\ ~LoopCondition
    /\ pc' = "done"
    /\ IF v0_mid = Unbound
         THEN /\ raised' = "NameError"
              /\ out' = [iter |-> iter]
         ELSE /\ raised' = "none"
              /\ out' = [iter |-> iter, v0_mid |-> v0_mid, f_mid |-> f_mid]
    /\ UNCHANGED <<problem, known, n_eval, bracket0, v0_1, f_1, v0_2, f_2,
                   v0_mid, f_mid, iter, max_iter, tol>>
    /\ UNCHANGED evars

(***************************************************************************)
(* Solving second order ODEs.ipynb.                                        *)
(*                                                                         *)
(* A numpy array is [shape |-> its shape, flat |-> its entries, row-major]; *)
(* shapes of rank 0, 1 and 2 occur.  Entries are integers, on which the    *)
(* float operations of the notebook are exact.                             *)
(***************************************************************************)
m == 1             \* mass
k == 1             \* spring constant

Size(s) == IF Len(s) = 0 THEN 1 ELSE IF Len(s) = 1 THEN s[1] ELSE s[1] * s[2]

\* a shape with 1s put in front, as broadcasting does
Pad2(s) == IF Len(s) = 0 THEN <<1, 1>> ELSE IF Len(s) = 1 THEN <<1, s[1]>> ELSE s

Max(a, b) == IF a >= b THEN a ELSE b

\* entry (r, c) of a as broadcasting reads it: an axis of length 1 repeats
At(a, r, c) ==
    LET p == Pad2(a.shape)
    IN  a.flat[(IF p[1] = 1 THEN 0 ELSE r - 1) * p[2]
                 + (IF p[2] = 1 THEN 1 ELSE c)]

\* whether a + b is defined
Broadcastable(sa, sb) ==
    \A d \in 1..2 :
        \/ Pad2(sa)[d] = Pad2(sb)[d]
        \/ Pad2(sa)[d] = 1
        \/ Pad2(sb)[d] = 1

BroadcastShape(sa, sb) ==
    LET full == <<Max(Pad2(sa)[1], Pad2(sb)[1]), Max(Pad2(sa)[2], Pad2(sb)[2])>>
        rank == Max(Len(sa), Len(sb))
    IN  SubSeq(full, 3 - rank, 2)

\* a + b
np_add(a, b) ==
    LET s == BroadcastShape(a.shape, b.shape)
        p == Pad2(s)
    IN  [shape |-> s,
         flat |-> [n \in 1..Size(s) |->
                     At(a, ((n - 1) \div p[2]) + 1, ((n - 1) % p[2]) + 1)
                       + At(b, ((n - 1) \div p[2]) + 1, ((n - 1) % p[2]) + 1)]]

\* a * c for a number c
np_scale(a, c) == [shape |-> a.shape, flat |-> [n \in DOMAIN a.flat |-> a.flat[n] * c]]

\* whether target[...] = v is defined for a slot of shape ss
Assignable(sv, ss) ==
    /\ Len(sv) <= Len(ss) \/ sv[1] = 1
    /\ \A d \in 1..2 : Pad2(sv)[d] = Pad2(ss)[d] \/ Pad2(sv)[d] = 1

\* the value a slot of shape ss holds after target[...] = v
np_setitem(ss, v) ==
    LET p == Pad2(ss)
    IN  [shape |-> ss,
         flat |-> [n \in 1..Size(ss) |->
                     At(v, ((n - 1) \div p[2]) + 1, ((n - 1) % p[2]) + 1)]]

\* y[r] for r = 0, 1, ...: the r-th slice along the first axis
Row(a, r) ==
    LET s == Tail(a.shape)
    IN  [shape |-> s, flat |-> SubSeq(a.flat, r * Size(s) + 1, (r + 1) * Size(s))]

\* np.array([a, b]) for two arrays of one shape
np_array2(a, b) == [shape |-> <<2>> \o a.shape, flat |-> a.flat \o b.flat]

np_zeros(s) == [shape |-> s, flat |-> [n \in 1..Size(s) |-> 0]]

\* a right-hand side written on flat entries: x and v are the first two
\* numbers of y whatever its shape
SHO_deriv_flat(yy, t) ==
    [shape |-> <<2>>, flat |-> <<yy.flat[2], ((-k) * yy.flat[1]) \div m>>]

\* def SHO_deriv(y,t)
SHO_deriv(yy, t) ==
    LET x == Row(yy, 0)
        v == Row(yy, 1)
        dx == v
        dv == [shape |-> x.shape,
               flat |-> [n \in DOMAIN x.flat |-> ((-k) * x.flat[n]) \div m]]
    IN  np_array2(dx, dv)

\* a time is the fraction num/den; floor(2*t) for a time that is >= 0
Floor2(t) == (2 * t.num) \div t.den

\* The right-hand side functions the loop is run with: SHO_deriv and, as
\* stand-ins for other functions a caller may pass,
\*   "ramp"    returns an array of the shape of y holding floor(2*t)
\*   "scalar"  returns the number 1
\*   "pair"    returns np.array([1,-1])
\*   "vec3"    returns np.array([1,1,1])
Derivs == {"SHO_deriv", "ramp", "scalar", "pair", "vec3"}

Deriv(fn, yy, t) ==
    CASE fn = "SHO_deriv" -> SHO_deriv(yy, t)
      [] fn = "ramp" -> [shape |-> yy.shape,
                         flat |-> [n \in DOMAIN yy.flat |-> Floor2(t)]]
      [] fn = "scalar" -> [shape |-> << >>, flat |-> <<1>>]
      [] fn = "pair" -> [shape |-> <<2>>, flat |-> <<1, -1>>]
      [] fn = "vec3" -> [shape |-> <<3>>, flat |-> <<1, 1, 1>>]

\* np.linspace(0,total_t,n)
np_linspace(stop, n) ==
    [j \in 1..n |-> IF n = 1 THEN [num |-> 0, den |-> 1]
                    ELSE [num |-> (j - 1) * stop, den |-> n - 1]]

\* whether y[i+1] = y[i] + d * dt goes through for a slot of shape s and a
\* derivative of shape sd
StepDefined(s, sd) ==
    /\ Broadcastable(s, sd)
    /\ Assignable(BroadcastShape(s, sd), s)

\* the value y[i+1] gets from y[i+1] = y[i] + d * dt
EulerUpdate(yi, d, h) == np_setitem(yi.shape, np_add(yi, np_scale(d, h)))

Shapes == {<<2>>, <<2, 2>>}

\* state after the parameter cell 4f7bbbd9 and the lines of cell 44f4ed81
\* (storage np.zeros((N_steps,2)), initial state of shape [2]) or of cell
\* c37da071 (storage np.zeros((N_steps,2,2)), initial state of shape [2,2])
\* that come before the loop
InitEuler ==
    \E h \in 1..MaxDt, tt \in 0..MaxT, s \in Shapes, fn \in Derivs :
      \E fl \in [1..Size(s) -> (-MaxY)..MaxY] :
        /\ dt = h
        /\ total_t = tt
        /\ N_steps = (tt \div h) + 1
        /\ time = np_linspace(tt, (tt \div h) + 1)
        /\ deriv = fn
        /\ y0 = [shape |-> s, flat |-> fl]
        /\ y = [j \in 1..((tt \div h) + 1) |->
                  IF j = 1 THEN [shape |-> s, flat |-> fl] ELSE np_zeros(s)]
        /\ i = 0
        /\ epc = "loop"
        /\ eraised = "none"

\* one pass of  for i in range(0,N_steps-1): y[i+1] = y[i] + deriv(y[i],time[i]) * dt
EulerStep ==
    /\ epc = "loop"
    /\ i < N_steps - 1
    /\ LET d == Deriv(deriv, y[i + 1], time[i + 1])
       IN  IF StepDefined(y[i + 1].shape, d.shape)
             THEN /\ y' = [y EXCEPT ![i + 2] = EulerUpdate(y[i + 1], d, dt)]
                  /\ i' = i + 1
                  /\ UNCHANGED <<epc, eraised>>
             ELSE /\ eraised' = "ValueError"
                  /\ epc' = "error"
                  /\ UNCHANGED <<y, i>>
    /\ UNCHANGED <<dt, total_t, N_steps, time, deriv, y0>>
    /\ UNCHANGED bvars

\* range(0,N_steps-1) is used up
EulerEnd ==
    /\ epc = "loop"
    /\ i >= N_steps - 1
    /\ epc' = "done"
    /\ UNCHANGED <<dt, total_t, N_steps, time, deriv, y0, y, i, eraised>>
    /\ UNCHANGED bvars

(***************************************************************************)
(* Specifications: one per notebook run.                                   *)
(***************************************************************************)
BisectIdle ==
    /\ problem = "none" /\ known = << >> /\ n_eval = 0 /\ bracket0 = << >>
    /\ v0_1 = 0 /\ f_1 = 0 /\ v0_2 = 0 /\ f_2 = 0 /\ v0_mid = Unbound
    /\ f_mid = 0 /\ iter = 0 /\ max_iter = 0 /\ tol = 0
    /\ pc = "idle" /\ raised = "none" /\ out = << >>

EulerIdle ==
    /\ dt = 0 /\ total_t = 0 /\ N_steps = 0 /\ time = << >> /\ deriv = "none"
    /\ y0 = << >> /\ y = << >> /\ i = 0 /\ epc = "idle" /\ eraised = "none"

NextBisect == Iterate \/ Finish

NextEuler == EulerStep \/ EulerEnd

Init == InitBisect /\ EulerIdle

InitBallRun == InitBall /\ EulerIdle

InitEulerRun == InitEuler /\ BisectIdle

\* the bisection cell on an arbitrary residual function
Spec == Init /\ [][NextBisect]_vars

\* the same; the cell, once started, runs on
SpecLive == Spec /\ WF_vars(NextBisect)

\* the bisection cell on the ball drop
SpecBall == InitBallRun /\ [][NextBisect]_vars

\* the Euler cells
SpecEuler == InitEulerRun /\ [][NextEuler]_vars


(***************************************************************************)
(* Properties of the bisection cell.                                       *)
(***************************************************************************)
InvalidBracket0 == bracket0.f_1 * bracket0.f_2 > 0

Width == abs(v0_2 - v0_1)

Width0 == abs(bracket0.v0_2 - bracket0.v0_1)

\* the budget is used up and the last midpoint residual is above tol
Exhausted == pc = "done" /\ iter >= 1 /\ iter >= max_iter /\ abs(f_mid) > tol

\* C1: if the initial residuals satisfy f1*f2 <= 0, the stored residuals
\* satisfy f_1*f_2 <= 0 after every iteration, whatever the residual function
C1_BracketInvariant == (~InvalidBracket0) => (f_1 * f_2 <= 0)

\* C1 witness: a valid bracket both of whose ends have been replaced
C1_Witness ==
    /\ ~InvalidBracket0
    /\ iter >= 2
    /\ v0_1 # bracket0.v0_1
    /\ v0_2 # bracket0.v0_2
    /\ f_1 * f_2 < 0

\* C2 as stated: when the initial residuals have the same strict sign the
\* search fails with InvalidBracket at once: no residual evaluation beyond
\* the two bracket checks, no midpoint, no endpoint replaced
C2_InvalidBracketRejected ==
    InvalidBracket0 =>
        /\ n_eval = 2
        /\ v0_mid = Unbound
        /\ v0_1 = bracket0.v0_1 /\ v0_2 = bracket0.v0_2
        /\ pc = "done" => raised = "InvalidBracket"

\* C2 amended: the cell checks no bracket.  With initial residuals of the
\* same strict sign it raises no InvalidBracket and runs as on any bracket:
\* one residual evaluation per iteration, at least one iteration when
\* max_iter > 0 and |10*tol| > tol, and it ends with |f_mid| <= tol or
\* iter = max_iter
C2_NoBracketCheck ==
    InvalidBracket0 =>
        /\ raised # "InvalidBracket"
        /\ n_eval = 2 + iter
        /\ pc = "done" =>
            /\ abs(f_mid) <= tol \/ iter = max_iter
            /\ (max_iter > 0 /\ abs(10 * tol) > tol) => (iter >= 1 /\ raised = "none")

\* C2 witness: a run on an invalid bracket that went through the loop twice
\* and ended without an exception
C2_Witness ==
    /\ InvalidBracket0
    /\ pc = "done"
    /\ iter >= 2
    /\ raised = "none"

\* C3: the loop makes at most max_iter iterations with one residual
\* evaluation each, makes no iteration after one whose midpoint residual is
\* within tol, is left with |f_mid| <= tol or iter >= max_iter, and is left
\* eventually
C3_Termination ==
    /\ [](iter <= max_iter /\ n_eval = 2 + iter)
    /\ [][(iter >= 1 /\ abs(f_mid) <= tol) => (iter' = iter)]_vars
    /\ [][(iter' # iter) => (abs(f_mid) > tol /\ iter' = iter + 1)]_vars
    /\ [](pc = "done" => (abs(f_mid) <= tol \/ iter >= max_iter))
    /\ <>(pc = "done")

\* C3 witness: the loop was left at its second iteration, before the budget
\* of three was used up, on a midpoint residual within tol
C3_Witness ==
    /\ pc = "done"
    /\ max_iter = 3
    /\ iter = 2
    /\ abs(f_mid) <= tol

C5_WidthHalving == Width * Pow2(iter) = Width0

\* C5 amended: after k iterations the bracket width is the initial width
\* divided by 2^k exactly, as long as 2^k divides the initial width counted
\* in ulps (every midpoint so far was representable)
C5_WidthHalvingRepresentable ==
    (Width0 % Pow2(iter) = 0) => (Width * Pow2(iter) = Width0)

\* C5 witness: a bracket of 4 ulps halved twice
C5_Witness == Width0 = 4 /\ iter = 2 /\ Width = 1

\* C10: an iteration sets v0_mid to 0.5*(v0_1+v0_2) (as a float: the exact
\* midpoint, or its even neighbour when the sum is odd in ulps) and f_mid to
\* the residual there; if f_mid*f_1 > 0 it replaces (v0_1,f_1) and leaves
\* (v0_2,f_2), otherwise it replaces (v0_2,f_2) and leaves (v0_1,f_1); the
\* iteration count goes up by one
C10_TransitionRule ==
    [][(iter' # iter) =>
        /\ 2 * v0_mid' - (v0_1 + v0_2) \in {-1, 0, 1}
        /\ ((v0_1 + v0_2) % 2 = 1) => (v0_mid' % 2 = 0)
        /\ f_mid' = known'[v0_mid']
        /\ IF f_mid' * f_1 > 0
             THEN /\ v0_1' = v0_mid' /\ f_1' = f_mid'
                  /\ v0_2' = v0_2 /\ f_2' = f_2
             ELSE /\ v0_2' = v0_mid' /\ f_2' = f_mid'
                  /\ v0_1' = v0_1 /\ f_1' = f_1
        /\ iter' = iter + 1]_vars

\* C10 witness: an iteration whose midpoint residual was zero replaced the
\* upper bracket and left the lower one
C10_Witness ==
    /\ iter = 1
    /\ f_mid = 0
    /\ f_1 # 0
    /\ v0_2 = v0_mid /\ v0_2 # bracket0.v0_2
    /\ v0_1 = bracket0.v0_1 /\ f_1 = bracket0.f_1

(***************************************************************************)
(* The recorded run of the ball drop.                                      *)
(***************************************************************************)
RecordedIterations == 18      \* "Finished after 18 iterations"

RecordedMid == 257163         \* 49.049949645996094 = 257163 * 50 / 2^18

\* C8: with bracket [0,50], tol 1e-3 and max_iter 100 the search on the
\* ball drop ends converged, after the 18 iterations of the recorded run
\* (well under 100), on the recorded midpoint, which is an end of a bracket
\* of width 50/2^18 that holds the root 49.05 of the residual
C8_BallDropConverges ==
    (pc = "done" /\ max_iter = max_iter_nb) =>
        /\ raised = "none"
        /\ abs(f_mid) <= tol
        /\ iter = RecordedIterations
        /\ iter < max_iter
        /\ v0_mid = RecordedMid * Pow2(BallBits - RecordedIterations)
        /\ v0_mid \in {v0_1, v0_2}
        /\ v0_2 - v0_1 = Pow2(BallBits - RecordedIterations)
        /\ f_1 < 0 /\ f_2 > 0
        /\ f_1 = projectile_final_height_error(v0_1)
        /\ f_2 = projectile_final_height_error(v0_2)

\* C8 witness: the run with the notebook's max_iter has ended
C8_Witness == pc = "done" /\ max_iter = max_iter_nb /\ iter > 0


(***************************************************************************)
(* Properties of the Euler cells.                                          *)
(***************************************************************************)
\* the derivative the loop gets in its first pass
FirstDeriv == Deriv(deriv, y0, time[1])

\* column c of a [2,2] state: the position and velocity of one component
Col(a, c) == [shape |-> <<2>>, flat |-> <<At(a, 1, c), At(a, 2, c)>>]

\* the shape-[2] loop of cell 44f4ed81 run with SHO_deriv from the state
\* c0 for n steps, on the time grid and dt of the run
RECURSIVE Run1D(_, _)
Run1D(c0, n) ==
    IF n = 0 THEN c0
    ELSE LET prev == Run1D(c0, n - 1)
         IN  EulerUpdate(prev, SHO_deriv(prev, time[n]), dt)

\* C6: the trajectory has n+1 entries for n = int(total_t/dt), starts with
\* y0 and, for every step j made, entry j+1 is entry j plus dt times the
\* derivative evaluated at entry j and at the left endpoint time j*dt of
\* the step
C6_EulerTrajectory ==
    (deriv \in {"SHO_deriv", "ramp"}) =>
        /\ Len(y) = (total_t \div dt) + 1
        /\ y[1] = y0
        /\ \A j \in 0..(i - 1) : \A n \in 1..Size(y0.shape) :
             y[j + 2].flat[n] =
                y[j + 1].flat[n]
                  + Deriv(deriv, y[j + 1], [num |-> j * dt, den |-> 1]).flat[n] * dt

\* what the loop does instead: the derivative is evaluated at time[j], the
\* j-th point of np.linspace(0,total_t,N_steps), which is j*dt only when dt
\* divides total_t
EulerTrajectoryOnGrid ==
    (deriv \in {"SHO_deriv", "ramp"}) =>
        /\ Len(y) = (total_t \div dt) + 1
        /\ y[1] = y0
        /\ eraised = "none"
        /\ epc = "done" => i = total_t \div dt
        /\ \A j \in 0..(i - 1) : \A n \in 1..Size(y0.shape) :
             y[j + 2].flat[n] =
                y[j + 1].flat[n]
                  + Deriv(deriv, y[j + 1], time[j + 1]).flat[n] * dt
        /\ \A j \in 0..(N_steps - 1) :
             (total_t % dt = 0) => (time[j + 1].num = j * dt * time[j + 1].den)

\* C7: if the derivative function returns a value whose shape differs from
\* the shape of y0, the integration fails at the step where this shows: no
\* step is completed and no trajectory is produced
C7_ShapeMismatchFails ==
    (FirstDeriv.shape # y0.shape /\ N_steps > 1) => (i = 0 /\ epc # "done")

\* what the loop does instead: a derivative whose shape cannot be broadcast
\* to the shape of y0 ends the first pass with numpy's ValueError; one whose
\* shape differs but broadcasts is added as numpy broadcasts it and the loop
\* runs to its end
ShapeMismatchBroadcasts ==
    (FirstDeriv.shape # y0.shape /\ N_steps > 1) =>
        IF FirstDeriv.shape \in {<< >>, <<2>>}
          THEN /\ eraised = "none"
               /\ epc = "done" => i = N_steps - 1
               /\ \A j \in 0..(i - 1) : \A r \in 1..2 : \A c \in 1..2 :
                    At(y[j + 2], r, c) = At(y[j + 1], r, c) + At(FirstDeriv, r, c) * dt
          ELSE /\ i = 0
               /\ epc \in {"loop", "error"}
               /\ epc = "error" => eraised = "ValueError"

\* C9: the loop run with SHO_deriv on a state of shape [2,2] gives at every
\* timestep, for each column, the state that the shape-[2] loop gives when
\* run on that column's position and velocity alone with the same dt
C9_ShapeBroadcast ==
    (y0.shape = <<2, 2>> /\ deriv = "SHO_deriv") =>
        /\ eraised = "none"
        /\ \A j \in 0..i : \A c \in 1..2 :
             /\ y[j + 1].shape = <<2, 2>>
             /\ Col(y[j + 1], c) = Run1D(Col(y0, c), j)

\* C9 witness: a finished run of at least two steps on a [2,2] state whose
\* two columns differ and move
C9_Witness ==
    /\ y0.shape = <<2, 2>>
    /\ deriv = "SHO_deriv"
    /\ epc = "done"
    /\ i >= 2
    /\ Col(y0, 1) # Col(y0, 2)
    /\ Col(y[i + 1], 1) # Col(y0, 1)
    /\ Col(y[i + 1], 2) # Col(y0, 2)

====
